---- MODULE Spec2Model ----
(***************************************************************************)
(* State-machine model of src/main.cpp: the Vulkan bootstrap sequence      *)
(* Application::run (initWindow, initVulkan, mainLoop, cleanup), with the  *)
(* queue-family scan of findQueueFamilies modelled one loop iteration per  *)
(* step.  The backend (device list, queue-family flags, presentation       *)
(* support, success of each vkCreate* call) is the nondeterministic input. *)
(***************************************************************************)
EXTENDS Integers, Sequences, FiniteSets, TLC

\* ---------------------------------------------------------------- bounds
\* devices reported by the backend, queue families over all of them together,
\* and event polls before the window closes
MaxDevices == 2
MaxFamilies == 3
MaxPolls == 1

\* ------------------------------------------------------ program constants
EXIT_SUCCESS == 0
EXIT_FAILURE == 1
VK_NULL_HANDLE == 0
QueueCount == 1
QueuePriority == 1

validationLayers == {"VK_LAYER_KHRONOS_validation"}
KnownLayers == {"VK_LAYER_KHRONOS_validation", "VK_LAYER_LUNARG_api_dump"}

MsgNoValidation == "Validation Layers were requested, but not available!"
MsgNoInstance == "Failed to create instance!"
MsgNoMessenger == "Failed to set up debug messenger!"
MsgNoSurface == "Failed to create window surface!"
MsgNoDevice == "Failed to find GPU with Vulkan support!"
MsgNoSuitable == "Failed to find a suitable GPU!"
MsgNoLogical == "Failed to create logical device!"
MsgBadOptional == "bad optional access"

\* ------------------------------------------------------------ data model
\* std::optional<T>: empty, or holding one value
NoValue == <<>>
Some(v) == <<v>>
has_value(o) == Len(o) = 1
value(o) == o[1]

\* VkQueueFamilyProperties reduced to the graphics bit, plus the answer the
\* backend gives to the surface-support query for that family
Family == [graphics : BOOLEAN, present : BOOLEAN]

SeqsUpTo(S, n) == UNION {[1..k -> S] : k \in 0..n}

\* a physical device is the ordered list of its queue families
Device == SeqsUpTo(Family, MaxFamilies)

\* the lists of k devices that have at most budget queue families in all
RECURSIVE DevicesWithin(_, _)
DevicesWithin(k, budget) ==
    IF k = 0 THEN {<<>>}
    ELSE UNION {{<<d>> \o rest : rest \in DevicesWithin(k - 1, budget - Len(d))} :
                   d \in SeqsUpTo(Family, budget)}
DeviceLists == UNION {DevicesWithin(k, MaxFamilies) : k \in 0..MaxDevices}

\* struct QueueFamilyIndices, default constructed: both optionals empty
EmptyIndicesZero == [graphicsFamily |-> Some(0), presentFamily |-> NoValue]
EmptyIndices == [graphicsFamily |-> NoValue, presentFamily |-> NoValue]

isComplete(ind) == has_value(ind.graphicsFamily) /\ has_value(ind.presentFamily)

VARIABLES
    devices,                \* what vkEnumeratePhysicalDevices reports
    enableValidationLayers, \* build configuration (NDEBUG)
    pc,                     \* position in Application::run
    window, instance, debugMessenger, surface, logicalDevice,
    physicalDevice,         \* VK_NULL_HANDLE or the 1-based device position
    graphicsQueue, presentQueue,
    devIdx,                 \* position of the range-for in selectPhysicalDevice
    caller,                 \* who called findQueueFamilies
    scanDevice,             \* findQueueFamilies' device argument
    i,                      \* findQueueFamilies' family counter
    indices,                \* findQueueFamilies' local and return value
    suitIndices,            \* isDeviceSuitable's local copy of the result
    queries,                \* calls made by the current findQueueFamilies
    queueCreateInfos,       \* the requests handed to vkCreateDevice
    polls,                  \* glfwPollEvents calls made by mainLoop
    exitStatus, errorMsg,   \* what main returns / prints
    events                  \* acquisitions and releases, in program order

vars == <<devices, enableValidationLayers, pc, window, instance, debugMessenger,
          surface, logicalDevice, physicalDevice, graphicsQueue, presentQueue,
          devIdx, caller, scanDevice, i, indices, suitIndices, queries,
          queueCreateInfos, polls, exitStatus, errorMsg, events>>

resources == <<window, instance, debugMessenger, surface, logicalDevice>>
selection == <<physicalDevice, devIdx, suitIndices>>
scan == <<caller, scanDevice, i, indices, queries>>
queues == <<graphicsQueue, presentQueue, queueCreateInfos>>
inputs == <<devices, enableValidationLayers>>
outcome == <<exitStatus, errorMsg>>

Init ==
    /\ devices \in DeviceLists
    /\ enableValidationLayers \in BOOLEAN
    /\ pc = "initWindow"
    /\ window = "none" /\ instance = "none" /\ debugMessenger = "none"
    /\ surface = "none" /\ logicalDevice = "none"
    /\ physicalDevice = VK_NULL_HANDLE
    /\ graphicsQueue = NoValue /\ presentQueue = NoValue
    /\ devIdx = 0
    /\ caller = "none"
    /\ scanDevice = 0
    /\ i = 0
    /\ indices = EmptyIndices
    /\ suitIndices = EmptyIndices
    /\ queries = <<>>
    /\ queueCreateInfos = <<>>
    /\ polls = 0
    /\ exitStatus = NoValue
    /\ errorMsg = NoValue
    /\ events = <<>>

\* a std::exception leaves run() and is caught in main, which prints what()
\* and returns EXIT_FAILURE; no cleanup() is run on this path
Throw(msg) ==
    /\ pc' = "exit"
    /\ exitStatus' = Some(EXIT_FAILURE)
    /\ errorMsg' = Some(msg)

initWindow ==
    /\ pc = "initWindow"
    /\ window' = "live"
    /\ events' = Append(events, "glfwCreateWindow")
    /\ pc' = "createInstance"
    /\ UNCHANGED <<instance, debugMessenger, surface, logicalDevice>>
    /\ UNCHANGED <<inputs, selection, scan, queues, polls, outcome>>

checkValidationLayerSupport(availableLayers) ==
    \A layerName \in validationLayers : layerName \in availableLayers

createInstance ==
    /\ pc = "createInstance"
    /\ \E availableLayers \in SUBSET KnownLayers, vkCreateInstance \in BOOLEAN :
          IF enableValidationLayers /\ ~checkValidationLayerSupport(availableLayers)
          THEN /\ Throw(MsgNoValidation)
               /\ UNCHANGED <<instance, events>>
          ELSE IF ~vkCreateInstance
          THEN /\ Throw(MsgNoInstance)
               /\ UNCHANGED <<instance, events>>
          ELSE /\ instance' = "live"
               /\ events' = Append(events, "vkCreateInstance")
               /\ pc' = "setupDebugMessenger"
               /\ UNCHANGED outcome
    /\ UNCHANGED <<window, debugMessenger, surface, logicalDevice>>
    /\ UNCHANGED <<inputs, selection, scan, queues, polls>>

setupDebugMessenger ==
    /\ pc = "setupDebugMessenger"
    /\ IF ~enableValidationLayers
       THEN /\ pc' = "createSurface"
            /\ UNCHANGED <<debugMessenger, events, outcome>>
       ELSE \E CreateDebugUtilsMessengerEXT \in BOOLEAN :
               IF ~CreateDebugUtilsMessengerEXT
               THEN /\ Throw(MsgNoMessenger)
                    /\ UNCHANGED <<debugMessenger, events>>
               ELSE /\ debugMessenger' = "live"
                    /\ events' = Append(events, "CreateDebugUtilsMessengerEXT")
                    /\ pc' = "createSurface"
                    /\ UNCHANGED outcome
    /\ UNCHANGED <<window, instance, surface, logicalDevice>>
    /\ UNCHANGED <<inputs, selection, scan, queues, polls>>

createSurface ==
    /\ pc = "createSurface"
    /\ \E glfwCreateWindowSurface \in BOOLEAN :
          IF ~glfwCreateWindowSurface
          THEN /\ Throw(MsgNoSurface)
               /\ UNCHANGED <<surface, events>>
          ELSE /\ surface' = "live"
               /\ events' = Append(events, "glfwCreateWindowSurface")
               /\ pc' = "selectPhysicalDevice"
               /\ UNCHANGED outcome
    /\ UNCHANGED <<window, instance, debugMessenger, logicalDevice>>
    /\ UNCHANGED <<inputs, selection, scan, queues, polls>>

\* ------------------------------------------------- selectPhysicalDevice
selectPhysicalDevice ==
    /\ pc = "selectPhysicalDevice"
    /\ LET deviceCount == Len(devices)
       IN IF deviceCount = 0
          THEN /\ Throw(MsgNoDevice)
               /\ UNCHANGED devIdx
          ELSE /\ devIdx' = 1
               /\ pc' = "selectLoop"
               /\ UNCHANGED outcome
    /\ UNCHANGED <<physicalDevice, suitIndices>>
    /\ UNCHANGED <<inputs, resources, scan, queues, polls, events>>

\* entry of findQueueFamilies(device): fresh indices, counter at 0
findQueueFamiliesCall(device, from) ==
    /\ caller' = from
    /\ scanDevice' = device
    /\ i' = 0
    /\ indices' = EmptyIndices
    /\ queries' = <<>>
    /\ pc' = "findQueueFamilies"

\* one turn of the range-for over devices: either the list is exhausted, or
\* isDeviceSuitable(device) is entered, which calls findQueueFamilies
selectLoop ==
    /\ pc = "selectLoop"
    /\ IF devIdx > Len(devices)
       THEN /\ pc' = "selectCheck"
            /\ UNCHANGED scan
       ELSE findQueueFamiliesCall(devIdx, "isDeviceSuitable")
    /\ UNCHANGED <<inputs, resources, selection, queues, polls, outcome, events>>

\* the check after the loop: nothing was assigned to physicalDevice
selectCheck ==
    /\ pc = "selectCheck"
    /\ IF physicalDevice = VK_NULL_HANDLE
       THEN Throw(MsgNoSuitable)
       ELSE /\ pc' = "createLogicalDevice"
            /\ UNCHANGED outcome
    /\ UNCHANGED <<inputs, resources, selection, scan, queues, polls, events>>

\* ---------------------------------------------------- findQueueFamilies
\* the backend's answer for (device, family index, surface)
vkGetPhysicalDeviceSurfaceSupportKHR(device, idx) == devices[device][idx + 1].present

\* if (queueFamily.queueFlags & VK_QUEUE_GRAPHICS_BIT) indices.graphicsFamily = i;
RecordGraphicsFirst(ind, graphicsBit, idx) ==
    IF graphicsBit /\ ~has_value(ind.graphicsFamily)
    THEN [ind EXCEPT !.graphicsFamily = Some(idx)] ELSE ind
RecordGraphics(ind, graphicsBit, idx) ==
    IF graphicsBit THEN [ind EXCEPT !.graphicsFamily = Some(idx)] ELSE ind

\* if (presentSupport) indices.presentFamily = i;
RecordPresentFirst(ind, presentSupport, idx) ==
    IF presentSupport /\ ~has_value(ind.presentFamily)
    THEN [ind EXCEPT !.presentFamily = Some(idx)] ELSE ind
RecordPresentNext(ind, presentSupport, idx) ==
    IF presentSupport THEN [ind EXCEPT !.presentFamily = Some(idx + 1)] ELSE ind
RecordPresent(ind, presentSupport, idx) ==
    IF presentSupport THEN [ind EXCEPT !.presentFamily = Some(idx)] ELSE ind

\* one iteration of the loop over queueFamilies, or its end
findQueueFamiliesStep ==
    /\ pc = "findQueueFamilies"
    /\ LET queueFamilies == devices[scanDevice]
           queueFamilyCount == Len(queueFamilies)
       IN IF i < queueFamilyCount
          THEN LET queueFamily == queueFamilies[i + 1]
                   afterGraphics == RecordGraphics(indices, queueFamily.graphics, i)
                   check == [op |-> "isComplete", family |-> i]
                   query == [op |-> "vkGetPhysicalDeviceSurfaceSupportKHR", family |-> i]
               IN IF isComplete(afterGraphics)
                  THEN /\ indices' = afterGraphics
                       /\ queries' = Append(queries, check)
                       /\ pc' = "findReturn"
                       /\ UNCHANGED i
                  ELSE /\ indices' = RecordPresent(afterGraphics,
                                        vkGetPhysicalDeviceSurfaceSupportKHR(scanDevice, i), i)
                       /\ queries' = queries \o <<check, query>>
                       /\ i' = i + 1
                       /\ UNCHANGED pc
          ELSE /\ pc' = "findReturn"
               /\ UNCHANGED <<i, indices, queries>>
    /\ UNCHANGED <<caller, scanDevice>>
    /\ UNCHANGED <<inputs, resources, selection, queues, polls, outcome, events>>

\* return indices; back in isDeviceSuitable the result decides the range-for
isDeviceSuitableReturn ==
    /\ pc = "findReturn"
    /\ caller = "isDeviceSuitable"
    /\ suitIndices' = indices
    /\ IF has_value(indices.graphicsFamily)
       THEN /\ physicalDevice' = devIdx
            /\ events' = Append(events, "selectPhysicalDevice")
            /\ pc' = "selectCheck"
            /\ UNCHANGED devIdx
       ELSE /\ devIdx' = devIdx + 1
            /\ pc' = "selectLoop"
            /\ UNCHANGED <<physicalDevice, events>>
    /\ UNCHANGED <<inputs, resources, scan, queues, polls, outcome>>

\* -------------------------------------------------- createLogicalDevice
createLogicalDevice ==
    /\ pc = "createLogicalDevice"
    /\ findQueueFamiliesCall(physicalDevice, "createLogicalDevice")
    /\ events' = Append(events, "createLogicalDevice")
    /\ UNCHANGED <<inputs, resources, selection, queues, polls, outcome>>

\* ascending iteration over a std::set<uint32_t>
RECURSIVE Ascending(_)
Ascending(S) ==
    IF S = {} THEN <<>>
    ELSE LET lo == CHOOSE x \in S : \A y \in S : x <= y
         IN <<lo>> \o Ascending(S \ {lo})

QueueCreateInfo(queueFamily) ==
    [queueFamilyIndex |-> queueFamily, queueCount |-> QueueCount,
     queuePriority |-> QueuePriority]

\* one VkDeviceQueueCreateInfo per element of uniqueQueueFamilies
BuildQueueCreateInfosPerCapability(ind) ==
    <<QueueCreateInfo(value(ind.graphicsFamily)), QueueCreateInfo(value(ind.presentFamily))>>
BuildQueueCreateInfos(ind) ==
    LET uniqueQueueFamilies == {value(ind.graphicsFamily), value(ind.presentFamily)}
        order == Ascending(uniqueQueueFamilies)
    IN [k \in 1..Len(order) |-> QueueCreateInfo(order[k])]

\* the handle of queue queueIndex of family queueFamilyIndex of the device
vkGetDeviceQueue(queueFamilyIndex, queueIndex) == Some(<<queueFamilyIndex, queueIndex>>)

\* the body of createLogicalDevice after findQueueFamilies has returned
createLogicalDeviceBuild ==
    /\ pc = "findReturn"
    /\ caller = "createLogicalDevice"
    /\ IF ~has_value(indices.graphicsFamily) \/ ~has_value(indices.presentFamily)
       THEN /\ Throw(MsgBadOptional)
            /\ UNCHANGED <<logicalDevice, queues, events>>
       ELSE /\ queueCreateInfos' = BuildQueueCreateInfos(indices)
            /\ \E vkCreateDevice \in BOOLEAN :
                  IF ~vkCreateDevice
                  THEN /\ Throw(MsgNoLogical)
                       /\ UNCHANGED <<logicalDevice, graphicsQueue, presentQueue, events>>
                  ELSE /\ logicalDevice' = "live"
                       /\ events' = Append(events, "vkCreateDevice")
                       /\ graphicsQueue' = vkGetDeviceQueue(value(indices.graphicsFamily), 0)
                       /\ presentQueue' = vkGetDeviceQueue(value(indices.presentFamily), 0)
                       /\ pc' = "mainLoop"
                       /\ UNCHANGED outcome
    /\ UNCHANGED <<window, instance, debugMessenger, surface>>
    /\ UNCHANGED <<inputs, selection, scan, polls>>

\* ------------------------------------------------------ mainLoop, cleanup
mainLoopPoll ==
    /\ pc = "mainLoop"
    /\ polls < MaxPolls
    /\ polls' = polls + 1
    /\ UNCHANGED <<pc, inputs, resources, selection, scan, queues, outcome, events>>

mainLoopClose ==
    /\ pc = "mainLoop"
    /\ pc' = "cleanup"
    /\ UNCHANGED <<inputs, resources, selection, scan, queues, polls, outcome, events>>

cleanupInstanceFirst ==
    /\ pc = "cleanup"
    /\ logicalDevice' = "destroyed"
    /\ surface' = "destroyed"
    /\ instance' = "destroyed"
    /\ window' = "destroyed"
    /\ events' = events \o <<"vkDestroyInstance", "vkDestroySurfaceKHR",
                             "vkDestroyDevice", "glfwDestroyWindow">>
    /\ pc' = "exit"
    /\ exitStatus' = Some(EXIT_SUCCESS)
    /\ UNCHANGED <<debugMessenger, errorMsg>>
    /\ UNCHANGED <<inputs, selection, scan, queues, polls>>

\* cleanup(), then run() returns and main returns EXIT_SUCCESS; the debug
\* messenger is not destroyed (the call is commented out)
cleanup ==
    /\ pc = "cleanup"
    /\ logicalDevice' = "destroyed"
    /\ surface' = "destroyed"
    /\ instance' = "destroyed"
    /\ window' = "destroyed"
    /\ events' = events \o <<"vkDestroyDevice", "vkDestroySurfaceKHR",
                             "vkDestroyInstance", "glfwDestroyWindow">>
    /\ pc' = "exit"
    /\ exitStatus' = Some(EXIT_SUCCESS)
    /\ UNCHANGED <<debugMessenger, errorMsg>>
    /\ UNCHANGED <<inputs, selection, scan, queues, polls>>

Next ==
    \/ initWindow
    \/ createInstance
    \/ setupDebugMessenger
    \/ createSurface
    \/ selectPhysicalDevice
    \/ selectLoop
    \/ selectCheck
    \/ findQueueFamiliesStep
    \/ isDeviceSuitableReturn
    \/ createLogicalDevice
    \/ createLogicalDeviceBuild
    \/ mainLoopPoll
    \/ mainLoopClose
    \/ cleanup

Spec == Init /\ [][Next]_vars

TypeOK ==
    /\ devices \in DeviceLists
    /\ pc \in {"initWindow", "createInstance", "setupDebugMessenger", "createSurface",
               "selectPhysicalDevice", "selectLoop", "selectCheck", "findQueueFamilies",
               "findReturn", "createLogicalDevice", "mainLoop", "cleanup", "exit"}
    /\ physicalDevice \in 0..Len(devices)
    /\ polls \in 0..MaxPolls

\* ------------------------------------------------------------ properties
Graphics(d) == {k \in 0..(Len(devices[d]) - 1) : devices[d][k + 1].graphics}
Presenting(d) == {k \in 0..(Len(devices[d]) - 1) : devices[d][k + 1].present}
DeviceComplete(d) == Graphics(d) # {} /\ Presenting(d) # {}
Lowest(S) == CHOOSE x \in S : \A y \in S : x <= y
Highest(S) == CHOOSE x \in S : \A y \in S : y <= x
Logged(op) == {queries[k].family : k \in {j \in 1..Len(queries) : queries[j].op = op}}
Visited == Logged("isComplete")
Queried == Logged("vkGetPhysicalDeviceSurfaceSupportKHR")
Happened(e) == \E k \in 1..Len(events) : events[k] = e
Returned == pc = "findReturn"
Failed == pc = "exit" /\ exitStatus = Some(EXIT_FAILURE)

\* C1 (as claimed): the selected device is the first one in enumeration
\* order whose resolved indices are complete; a device with a graphics
\* family but no presentation family is never selected.
C1_SelectsFirstComplete ==
    physicalDevice # VK_NULL_HANDLE =>
        /\ isComplete(suitIndices)
        /\ DeviceComplete(physicalDevice)
        /\ \A d \in 1..(physicalDevice - 1) : ~DeviceComplete(d)

\* C2 (as claimed): once the surface exists, an empty device list fails with
\* the no-device message, and a non-empty list without a complete device
\* fails with the no-suitable-device message, before createLogicalDevice is
\* entered and with no other error.
C2_FailureClassifiedByDeviceList ==
    LET noneComplete == \A d \in 1..Len(devices) : ~DeviceComplete(d)
    IN /\ (pc = "exit" /\ surface = "live" /\ Len(devices) = 0)
              => errorMsg = Some(MsgNoDevice)
       /\ (pc = "exit" /\ surface = "live" /\ Len(devices) > 0 /\ noneComplete)
              => errorMsg = Some(MsgNoSuitable)
       /\ noneComplete => ~Happened("createLogicalDevice")

\* C3 (as claimed): when findQueueFamilies returns for a device with a
\* graphics-capable family, graphicsFamily is the lowest graphics-capable
\* family index of the device.
C3_GraphicsIsLowest ==
    (Returned /\ Graphics(scanDevice) # {}) =>
        indices.graphicsFamily = Some(Lowest(Graphics(scanDevice)))

\* C3 (amended): when findQueueFamilies returns for a device with a
\* graphics-capable family, graphicsFamily is the highest index among the
\* graphics-capable families the scan visited.
C3_GraphicsIsHighestVisited ==
    (Returned /\ Graphics(scanDevice) # {}) =>
        /\ Graphics(scanDevice) \cap Visited # {}
        /\ indices.graphicsFamily = Some(Highest(Graphics(scanDevice) \cap Visited))

C3_Witness ==
    /\ Returned
    /\ Cardinality(Graphics(scanDevice) \cap Visited) = 2
    /\ indices.graphicsFamily = Some(1)

\* C4: when findQueueFamilies returns, graphicsFamily has a value exactly when
\* some family has the graphics flag and presentFamily has a value exactly
\* when some family supports presentation; with no presenting family the
\* result is incomplete, and an absent entry is not index 0.
C4_AbsenceIsFaithful ==
    Returned =>
        /\ has_value(indices.graphicsFamily) <=> (Graphics(scanDevice) # {})
        /\ has_value(indices.presentFamily) <=> (Presenting(scanDevice) # {})
        /\ (Presenting(scanDevice) = {}) =>
               (indices.presentFamily = NoValue /\ ~isComplete(indices))
        /\ (Graphics(scanDevice) = {}) => indices.graphicsFamily # Some(0)
        /\ (Presenting(scanDevice) = {}) => indices.presentFamily # Some(0)

C4_Witness ==
    /\ Returned
    /\ Graphics(scanDevice) # {}
    /\ Presenting(scanDevice) = {}
    /\ Len(devices[scanDevice]) >= 2
    /\ indices.presentFamily = NoValue

\* createLogicalDevice got complete indices and built its requests
Built ==
    /\ caller = "createLogicalDevice"
    /\ pc \in {"mainLoop", "cleanup", "exit"}
    /\ isComplete(indices)
TransferThenBoth ==
    <<[graphics |-> FALSE, present |-> FALSE], [graphics |-> TRUE, present |-> TRUE]>>
GraphicsThenPresent ==
    <<[graphics |-> TRUE, present |-> FALSE], [graphics |-> FALSE, present |-> TRUE]>>

\* C5: with complete indices createLogicalDevice issues one request
\* (queueCount 1, priority 1.0) per distinct value of {graphicsFamily,
\* presentFamily} and never two for one family; after creation both queue
\* handles are retrieved by their indices and are equal when the indices
\* are; the two example devices give (1, 1, one request) and (0, 1, two).
C5_OneRequestPerDistinctFamily ==
    Built =>
        LET g == value(indices.graphicsFamily)
            p == value(indices.presentFamily)
            n == Len(queueCreateInfos)
        IN /\ n = Cardinality({g, p})
           /\ n = (IF g = p THEN 1 ELSE 2)
           /\ {queueCreateInfos[k].queueFamilyIndex : k \in 1..n} = {g, p}
           /\ \A a, b \in 1..n :
                 queueCreateInfos[a].queueFamilyIndex = queueCreateInfos[b].queueFamilyIndex
                     => a = b
           /\ \A k \in 1..n : /\ queueCreateInfos[k].queueCount = 1
                              /\ queueCreateInfos[k].queuePriority = 1
           /\ logicalDevice # "none" =>
                 /\ has_value(graphicsQueue) /\ value(graphicsQueue) = <<g, 0>>
                 /\ has_value(presentQueue) /\ value(presentQueue) = <<p, 0>>
                 /\ (g = p) => (graphicsQueue = presentQueue)
           /\ devices[physicalDevice] = TransferThenBoth =>
                 (g = 1 /\ p = 1 /\ n = 1 /\ queueCreateInfos[1].queueFamilyIndex = 1)
           /\ devices[physicalDevice] = GraphicsThenPresent =>
                 (g = 0 /\ p = 1 /\ n = 2)

C5_Witness ==
    /\ Built
    /\ pc = "mainLoop"
    /\ devices[physicalDevice] = TransferThenBoth
    /\ Len(queueCreateInfos) = 1
    /\ graphicsQueue = presentQueue

Acquisitions ==
    <<"vkCreateInstance", "glfwCreateWindowSurface", "selectPhysicalDevice", "vkCreateDevice">>
Releases == <<"vkDestroyDevice", "vkDestroySurfaceKHR", "vkDestroyInstance">>
Among(log, names) ==
    SelectSeq(log, LAMBDA e : \E k \in 1..Len(names) : names[k] = e)
IsPrefix(s, t) == Len(s) <= Len(t) /\ \A k \in 1..Len(s) : s[k] = t[k]

\* C6: acquisitions happen in the order instance, surface, device selection,
\* logical device; the surface exists when a presentation-support query is
\* made; a run that started up and left the main loop releases the logical
\* device, then the surface, then the instance, each once, after all
\* acquisitions.
C6_AcquireThenReverseRelease ==
    /\ IsPrefix(Among(events, Acquisitions), Acquisitions)
    /\ (Queried # {}) => Happened("glfwCreateWindowSurface")
    /\ pc \in {"findQueueFamilies", "findReturn"} => surface = "live"
    /\ (pc = "exit" /\ exitStatus = Some(EXIT_SUCCESS))
           => /\ Among(events, Acquisitions) = Acquisitions
              /\ Among(events, Releases) = Releases
    /\ Among(events, Releases) # <<>> =>
           /\ Among(events, Releases) = Releases
           /\ Among(events, Acquisitions \o Releases) = Acquisitions \o Releases

C6_Witness ==
    /\ pc = "exit"
    /\ exitStatus = Some(EXIT_SUCCESS)
    /\ Among(events, Releases) = Releases
    /\ logicalDevice = "destroyed" /\ surface = "destroyed" /\ instance = "destroyed"

\* C7 (as claimed): when findQueueFamilies returns for a device with a
\* presentation-capable family, presentFamily is the lowest
\* presentation-capable family index of the device.
C7_PresentIsLowest ==
    (Returned /\ Presenting(scanDevice) # {}) =>
        indices.presentFamily = Some(Lowest(Presenting(scanDevice)))

\* C7 (amended): when findQueueFamilies returns for a device with a
\* presentation-capable family, presentFamily is the highest index among the
\* presentation-capable families the scan queried.
C7_PresentIsHighestQueried ==
    (Returned /\ Presenting(scanDevice) # {}) =>
        /\ Presenting(scanDevice) \cap Queried # {}
        /\ indices.presentFamily = Some(Highest(Presenting(scanDevice) \cap Queried))

C7_Witness ==
    /\ Returned
    /\ Cardinality(Presenting(scanDevice) \cap Queried) = 2
    /\ indices.presentFamily = Some(1)

\* C8 (as claimed): in a finished scan every visited family, the stopping one
\* included, had its presentation-support query made before its completeness
\* check, no family was visited after both capabilities were recorded, and
\* no family after the stopping one was queried.
C8_QueryBeforeCompletenessCheck ==
    Returned =>
        /\ \A f \in Visited :
              \E a, b \in 1..Len(queries) :
                 /\ a < b
                 /\ queries[a] = [op |-> "vkGetPhysicalDeviceSurfaceSupportKHR", family |-> f]
                 /\ queries[b] = [op |-> "isComplete", family |-> f]
        /\ \A f \in Queried : f <= i

\* C9 (as claimed): a failed startup never ran the main loop and leaves no
\* acquired resource unreleased when the program exits with failure.
C9_FailureReleasesEverything ==
    Failed =>
        /\ polls = 0
        /\ instance # "live"
        /\ debugMessenger # "live"
        /\ surface # "live"
        /\ logicalDevice # "live"

\* C10: the indices findQueueFamilies returns name families of the scanned
\* device that have the capability, and the call in createLogicalDevice
\* returns the indices the call in isDeviceSuitable returned for the selected
\* device.
C10_IndicesAreSound ==
    /\ Returned =>
          LET fams == devices[scanDevice]
              g == indices.graphicsFamily
              p == indices.presentFamily
          IN /\ has_value(g) =>
                   (value(g) >= 0 /\ value(g) < Len(fams) /\ fams[value(g) + 1].graphics)
             /\ has_value(p) =>
                   (value(p) >= 0 /\ value(p) < Len(fams) /\ fams[value(p) + 1].present)
    /\ (caller = "createLogicalDevice" /\ pc # "findQueueFamilies") =>
          (scanDevice = physicalDevice /\ indices = suitIndices)

C10_Witness ==
    /\ caller = "createLogicalDevice"
    /\ pc = "mainLoop"
    /\ indices = suitIndices
    /\ indices.graphicsFamily # indices.presentFamily

====
